---- MODULE Spec2Model ----
(***************************************************************************)
(* Document ingestion and retrieval of the knowledge base                  *)
(* (server/app/services/knowledge_base, server/app/api/v1/knowledge_base). *)
(*                                                                         *)
(* The relational table `documents`, the Qdrant collection, the upload and *)
(* delete requests in flight and the background tasks scheduled by the API *)
(* layer are the state.  Every await on the database, on the embedding     *)
(* provider or on Qdrant is a point where other requests and tasks can     *)
(* run, so each handler is cut into one action per such call.  The calls   *)
(* of upsert_vectors_batch to Qdrant are separate steps because Qdrant is  *)
(* a separate service that other workers read between two of them.         *)
(***************************************************************************)
EXTENDS Integers, FiniteSets, Sequences, TLC

\* ---------------------------------------------------------------- bounds
MaxUploads == 2          \* upload requests (and hence document ids)
MaxDeletes == 1          \* delete requests

Users == {"u1", "u2"}
Admin == "admin"
NoUser == "none"
DocIds == 1..MaxUploads
NoDoc == 0
UploadIds == 1..MaxUploads
DeleteIds == 1..MaxDeletes

\* numbers of chunks process_file may produce for a file
ChunkCounts == {0, 150}

\* ------------------------------------------------------ program constants
\* KnowledgeBaseService.MAX_FILE_SIZE
MAX_FILE_SIZE == 50 * 1024 * 1024
\* KnowledgeBaseService.SUPPORTED_FILE_TYPES
SUPPORTED_FILE_TYPES == {".pdf", ".txt", ".docx", ".doc", ".md", ".markdown"}
\* VectorOperations.upsert_vectors_batch(batch_size=100)
UpsertBatchSize == 100

\* files a client may send: extension, length in bytes, content
Files ==
    { [ext |-> ".txt", size |-> 10, content |-> "a"],
      [ext |-> ".md",  size |-> 20, content |-> "b"],
      [ext |-> ".exe", size |-> 10, content |-> "a"],
      [ext |-> ".txt", size |-> MAX_FILE_SIZE + 1, content |-> "big"],
      [ext |-> ".txt", size |-> 0, content |-> "empty"] }

\* hashlib.sha256(file_content).hexdigest(): one digest per content
compute_file_hash(content) ==
    CASE content = "a" -> "sha_a"
      [] content = "b" -> "sha_b"
      [] content = "big" -> "sha_big"
      [] OTHER -> "sha_empty"

\* variant: the test for an empty file is missing
validate_file_no_empty(f) ==
    IF f.ext \notin SUPPORTED_FILE_TYPES THEN "unsupported"
    ELSE IF f.size > MAX_FILE_SIZE THEN "too_large"
    ELSE "ok"

\* _validate_file: the ValidationError it raises, or "ok"
validate_file(f) ==
    IF f.ext \notin SUPPORTED_FILE_TYPES THEN "unsupported"
    ELSE IF f.size > MAX_FILE_SIZE THEN "too_large"
    ELSE IF f.size = 0 THEN "empty"
    ELSE "ok"

VARIABLES
    documents,    \* the documents table: id -> row, for the ids that exist
    index,        \* the Qdrant collection: document_id -> number of points
    uploads,      \* POST /kb/documents requests
    tasks,        \* background task of each document id
    scheduled,    \* number of add_task calls made for each document id
    deletes,      \* DELETE /kb/documents/{id} requests
    searchSeen,   \* passages of the last search, with the status of their document
    embedCall,    \* one call of OpenAIClient.generate_embeddings_batch under @retry
    searchCall,   \* one call of RetrievalService.search: its arguments and its return
    chunkCall,    \* one call of a chunker of DocumentProcessor: its text and its chunks
    ingestCall,   \* one upload from its form fields to the chunks of its processing
    scopeCall     \* one call of KnowledgeBaseService.search: its scope and its return

\* the calls followed on their own, outside the life of the documents
calls == <<embedCall, searchCall, chunkCall, ingestCall, scopeCall>>

vars == <<documents, index, uploads, tasks, scheduled, deletes, searchSeen, calls>>

NoResp == [kind |-> "none", id |-> NoDoc, duplicate |-> FALSE,
           status |-> "none", task_added |-> FALSE]
NoFile == [ext |-> "", size |-> 0, content |-> ""]
NewUpload == [pc |-> "new", user_id |-> NoUser, file |-> NoFile, file_hash |-> "none",
              resp |-> NoResp]
NoTask == [pc |-> "none", user_id |-> NoUser, n |-> 0, i |-> 0,
           caught |-> FALSE, cause |-> "none", fail_tried |-> FALSE, raised |-> FALSE]
NewDelete == [pc |-> "new", doc |-> NoDoc, result |-> "none"]

\* no call of the embedding client or of the retrieval service under way
NoEmbedCall == [pc |-> "none"]
NoSearchCall == [pc |-> "none"]
\* no chunking, no upload form and no scoped search under way
NoChunkCall == [pc |-> "none"]
NoIngestCall == [pc |-> "none"]
NoScopeCall == [pc |-> "none"]

\* the table, the collection and the requests when the service starts
InitStore ==
    /\ documents = << >>
    /\ index = [d \in DocIds |-> 0]
    /\ uploads = [r \in UploadIds |-> NewUpload]
    /\ tasks = [d \in DocIds |-> NoTask]
    /\ scheduled = [d \in DocIds |-> 0]
    /\ deletes = [q \in DeleteIds |-> NewDelete]
    /\ searchSeen = {}

Init ==
    /\ InitStore
    /\ embedCall = NoEmbedCall
    /\ searchCall = NoSearchCall
    /\ chunkCall = NoChunkCall
    /\ ingestCall = NoIngestCall
    /\ scopeCall = NoScopeCall

\* ------------------------------------------------------------ the table
Rows == DOMAIN documents

\* uuid primary key of a new row: an id no row has had before
NextId == Cardinality({r \in UploadIds : uploads[r].resp.kind = "created"}) + 1

\* variant: only a document that is done counts as a duplicate
check_duplicate_done_only(file_hash, user_id) ==
    {d \in Rows : documents[d].file_hash = file_hash /\ documents[d].user_id = user_id
                   /\ documents[d].status = "done"}

\* select(Document).where(file_hash == h, user_id == u)
check_duplicate_file(file_hash, user_id) ==
    {d \in Rows : documents[d].file_hash = file_hash /\ documents[d].user_id = user_id}

\* variant: the column carries no unique index
NoUniqueIndex(file_hash) == FALSE

\* the unique index ix_documents_file_hash on documents(file_hash)
UniqueViolation(file_hash) ==
    \E d \in Rows : documents[d].file_hash = file_hash

\* BaseRepository.create with the values upload_document passes
NewDocument(user_id, file_hash) ==
    [user_id |-> user_id, file_hash |-> file_hash,
     status |-> "processing", chunk_count |-> 0]

Insert(d, row) ==
    [e \in Rows \cup {d} |-> IF e = d THEN row ELSE documents[e]]

\* variant: the success update writes the status and forgets chunk_count
DoneFieldsStatusOnly(row, n) == [row EXCEPT !.status = "done"]

\* obj_in of the update on the success path (status and chunk_count)
DoneFields(row, n) == [row EXCEPT !.status = "done", !.chunk_count = n]

\* obj_in of the update on the failure path (status alone)
FailedFields(row) == [row EXCEPT !.status = "failed"]

\* BaseRepository.update(document_id, {"status": "done", "chunk_count": n}):
\* returns None and writes nothing when the row is gone
update_done(d, n) ==
    IF d \in Rows THEN [documents EXCEPT ![d] = DoneFields(@, n)] ELSE documents

\* BaseRepository.update(document_id, {"status": "failed"})
update_failed(d) ==
    IF d \in Rows THEN [documents EXCEPT ![d] = FailedFields(@)] ELSE documents

\* variant: the API layer schedules processing for a duplicate too
ScheduleAlways(is_duplicate) == TRUE

\* variant: the API layer returns without add_task
ScheduleNever(is_duplicate) == FALSE

\* API layer: add_task is reached only when is_duplicate is false
ShouldSchedule(is_duplicate) == ~is_duplicate

\* ------------------------------------------------ POST /kb/documents
\* upload_document up to the duplicate check: _validate_file,
\* _compute_file_hash, check_duplicate_file, and the return of the
\* existing document when there is one.
upload_document_check(r, u, f) ==
    /\ uploads[r].pc = "new"
    /\ \A s \in UploadIds : s < r => uploads[s].pc # "new"
    /\ LET h == compute_file_hash(f.content)
           dup == check_duplicate_file(h, u)
       IN  IF validate_file(f) # "ok"
           THEN /\ uploads' = [uploads EXCEPT ![r] =
                      [pc |-> "done", user_id |-> u, file |-> f, file_hash |-> "none",
                       resp |-> [NoResp EXCEPT !.kind = "ValidationError"]]]
                /\ UNCHANGED <<tasks, scheduled>>
           ELSE IF dup # {}
           THEN LET d == CHOOSE e \in dup : TRUE
                IN  /\ uploads' = [uploads EXCEPT ![r] =
                          [pc |-> "done", user_id |-> u, file |-> f, file_hash |-> h,
                           resp |-> [kind |-> "duplicate", id |-> d, duplicate |-> TRUE,
                                     status |-> documents[d].status,
                                     task_added |-> ShouldSchedule(TRUE)]]]
                    /\ IF ShouldSchedule(TRUE)
                       THEN /\ tasks' = [tasks EXCEPT ![d] =
                                  [NoTask EXCEPT !.pc = "scheduled", !.user_id = u]]
                            /\ scheduled' = [scheduled EXCEPT ![d] = @ + 1]
                       ELSE UNCHANGED <<tasks, scheduled>>
           ELSE /\ uploads' = [uploads EXCEPT ![r] =
                      [pc |-> "create", user_id |-> u, file |-> f, file_hash |-> h,
                       resp |-> NoResp]]
                /\ UNCHANGED <<tasks, scheduled>>
    /\ UNCHANGED <<documents, index, deletes, searchSeen, calls>>

\* upload_document from document_repo.create to the return, and the
\* add_task of the API layer that follows it without an await.
upload_document_create(r) ==
    /\ uploads[r].pc = "create"
    /\ LET u == uploads[r].user_id
           h == uploads[r].file_hash
           d == NextId
       IN  IF UniqueViolation(h)
           THEN \* IntegrityError at flush, re-raised; the API answers 500
                /\ uploads' = [uploads EXCEPT ![r].pc = "done",
                                              ![r].resp = [NoResp EXCEPT !.kind = "error"]]
                /\ UNCHANGED <<documents, tasks, scheduled>>
           ELSE /\ documents' = Insert(d, NewDocument(u, h))
                /\ uploads' = [uploads EXCEPT ![r].pc = "done",
                                 ![r].resp = [kind |-> "created", id |-> d, duplicate |-> FALSE,
                                              status |-> "processing",
                                              task_added |-> ShouldSchedule(FALSE)]]
                /\ IF ShouldSchedule(FALSE)
                   THEN /\ tasks' = [tasks EXCEPT ![d] =
                              [NoTask EXCEPT !.pc = "scheduled", !.user_id = u]]
                        /\ scheduled' = [scheduled EXCEPT ![d] = @ + 1]
                   ELSE UNCHANGED <<tasks, scheduled>>
    /\ UNCHANGED <<index, deletes, searchSeen, calls>>

\* --------------------------------------- process_document_background
\* the except branch of the outer try: the exception is caught and the
\* task goes on to record the failure
Caught(t) == [t EXCEPT !.caught = TRUE, !.pc = "update_failed", !.n = 0, !.i = 0]

\* variant: the failure of the status update escapes the task
OnUpdateErrorRaise(t) == [t EXCEPT !.pc = "finished", !.raised = TRUE]

\* the except branch of the inner try: update_error is logged, not raised
OnUpdateError(t) == [t EXCEPT !.pc = "finished"]

\* variant: the loop stops after its first pass
StoreDoneEarly(i, n) == TRUE

\* range(0, total_vectors, batch_size) is exhausted after offset i
StoreDone(i, n) == i + UpsertBatchSize >= n

Min(a, b) == IF a < b THEN a ELSE b

\* processor.process_file: parse and chunk into n chunks, or raise
process_file(d) ==
    /\ tasks[d].pc = "scheduled"
    /\ \/ \E n \in ChunkCounts :
            tasks' = [tasks EXCEPT ![d].pc = "embed", ![d].n = n]
       \/ tasks' = [tasks EXCEPT ![d] = [Caught(@) EXCEPT !.cause = "process_file"]]
    /\ UNCHANGED <<documents, index, uploads, scheduled, deletes, searchSeen, calls>>

\* _store_chunks up to the embeddings: return at once without chunks,
\* else embedding_service.generate_embeddings_batch(texts), which raises
\* ExternalServiceError when the provider fails
generate_embeddings_batch(d) ==
    /\ tasks[d].pc = "embed"
    /\ IF tasks[d].n = 0
       THEN tasks' = [tasks EXCEPT ![d].pc = "update_done"]
       ELSE \/ tasks' = [tasks EXCEPT ![d].pc = "upsert", ![d].i = 0]
            \/ tasks' = [tasks EXCEPT ![d] = [Caught(@) EXCEPT !.cause = "embed"]]
    /\ UNCHANGED <<documents, index, uploads, scheduled, deletes, searchSeen, calls>>

\* one pass of the loop of upsert_vectors_batch: the points i .. i+batch_size
\* are upserted, or the call fails and ExternalServiceError is raised
upsert_vectors_batch(d) ==
    /\ tasks[d].pc = "upsert"
    /\ LET i == tasks[d].i
           n == tasks[d].n
           batch_end == Min(i + UpsertBatchSize, n)
       IN  \/ /\ index' = [index EXCEPT ![d] = @ + (batch_end - i)]
              /\ tasks' = [tasks EXCEPT ![d].i = batch_end,
                              ![d].pc = IF StoreDone(i, n) THEN "update_done" ELSE "upsert"]
           \/ /\ tasks' = [tasks EXCEPT ![d] = [Caught(@) EXCEPT !.cause = "upsert"]]
              /\ UNCHANGED index
    /\ UNCHANGED <<documents, uploads, scheduled, deletes, searchSeen, calls>>

\* the update to status 'done' in a session of its own, and its commit;
\* a failure of either is caught by the outer except
update_status_done(d) ==
    /\ tasks[d].pc = "update_done"
    /\ \/ /\ documents' = update_done(d, tasks[d].n)
          /\ tasks' = [tasks EXCEPT ![d].pc = "finished"]
       \/ /\ tasks' = [tasks EXCEPT ![d] = [Caught(@) EXCEPT !.cause = "update"]]
          /\ UNCHANGED documents
    /\ UNCHANGED <<index, uploads, scheduled, deletes, searchSeen, calls>>

\* the update to status 'failed' inside the except branch, and its commit
update_status_failed(d) ==
    /\ tasks[d].pc = "update_failed"
    /\ \/ /\ documents' = update_failed(d)
          /\ tasks' = [tasks EXCEPT ![d].pc = "finished", ![d].fail_tried = TRUE]
       \/ /\ tasks' = [tasks EXCEPT ![d] = [OnUpdateError(@) EXCEPT !.fail_tried = TRUE]]
          /\ UNCHANGED documents
    /\ UNCHANGED <<index, uploads, scheduled, deletes, searchSeen, calls>>

\* ------------------------------------- DELETE /kb/documents/{id}
\* the get_document of the API layer with its ownership check, and the
\* get_document at the head of KnowledgeBaseService.delete_document
delete_document_get(q, d, caller) ==
    /\ deletes[q].pc = "new"
    /\ \A p \in DeleteIds : p < q => deletes[p].pc # "new"
    /\ deletes' = [deletes EXCEPT ![q] =
          IF d \notin Rows THEN [pc |-> "done", doc |-> d, result |-> "not_found"]
          ELSE IF caller # Admin /\ documents[d].user_id # caller
               THEN [pc |-> "done", doc |-> d, result |-> "forbidden"]
          ELSE [pc |-> "vectors", doc |-> d, result |-> "none"]]
    /\ UNCHANGED <<documents, index, uploads, tasks, scheduled, searchSeen, calls>>

\* variant: the failure of the vector deletion is logged and the row deleted
OnVectorDeleteErrorGoOn(x) == [x EXCEPT !.pc = "record", !.result = "vector_error"]

\* the except branch of delete_document: the error is raised to the caller
OnVectorDeleteError(x) == [x EXCEPT !.pc = "done", !.result = "vector_error"]

\* vector_operations.delete_vectors_by_filter(document_id == d); when it
\* raises, delete_document re-raises before touching the row
delete_vectors_by_filter(q) ==
    /\ deletes[q].pc = "vectors"
    /\ LET d == deletes[q].doc
       IN  \/ /\ index' = [index EXCEPT ![d] = 0]
              /\ deletes' = [deletes EXCEPT ![q].pc = "record"]
           \/ /\ deletes' = [deletes EXCEPT ![q] = OnVectorDeleteError(@)]
              /\ UNCHANGED index
    /\ UNCHANGED <<documents, uploads, tasks, scheduled, searchSeen, calls>>

\* document_repo.delete(document_id): the row is removed, or the database
\* call fails and the row stays
document_repo_delete(q) ==
    /\ deletes[q].pc = "record"
    /\ LET d == deletes[q].doc
       IN  \/ /\ documents' = [e \in Rows \ {d} |-> documents[e]]
              /\ deletes' = [deletes EXCEPT ![q].pc = "done", ![q].result = "deleted"]
           \/ /\ deletes' = [deletes EXCEPT ![q].pc = "done", ![q].result = "record_error"]
              /\ UNCHANGED documents
    /\ UNCHANGED <<index, uploads, tasks, scheduled, searchSeen, calls>>

\* ------------------------------------------------ POST /kb/search
StatusOf(d) == IF d \in Rows THEN documents[d].status ELSE "absent"

\* the filter KnowledgeBaseService.search builds: by document when a
\* document_id is given, else by user when a user_id is given, else none
Matches(d, user_id, document_id) ==
    IF document_id # NoDoc THEN d = document_id
    ELSE IF user_id # NoUser THEN tasks[d].user_id = user_id
    ELSE TRUE

\* the documents with a point in the collection that passes the filter
Candidates(user_id, document_id) ==
    {d \in DocIds : index[d] > 0 /\ Matches(d, user_id, document_id)}

\* RetrievalService.search with a threshold and a limit that cut nothing:
\* every point that passes the filter is returned.  Each returned passage
\* is recorded with the status its document has at that moment.
search(user_id, document_id) ==
    /\ searchSeen' = {[document_id |-> d, status |-> StatusOf(d)] :
                          d \in Candidates(user_id, document_id)}
    /\ UNCHANGED <<documents, index, uploads, tasks, scheduled, deletes, calls>>

Next ==
    \/ \E r \in UploadIds, u \in Users, f \in Files : upload_document_check(r, u, f)
    \/ \E r \in UploadIds : upload_document_create(r)
    \/ \E d \in DocIds : process_file(d)
    \/ \E d \in DocIds : generate_embeddings_batch(d)
    \/ \E d \in DocIds : upsert_vectors_batch(d)
    \/ \E d \in DocIds : update_status_done(d)
    \/ \E d \in DocIds : update_status_failed(d)
    \/ \E q \in DeleteIds, d \in DocIds, c \in Users \cup {Admin} : delete_document_get(q, d, c)
    \/ \E q \in DeleteIds : delete_vectors_by_filter(q)
    \/ \E q \in DeleteIds : document_repo_delete(q)
    \/ \E u \in Users \cup {NoUser}, d \in DocIds \cup {NoDoc} : search(u, d)

Spec == Init /\ [][Next]_vars

\* ------------------------------------------- the embedding client
\* EmbeddingService(batch_size=100)
EmbedBatchSize == 100
\* stop_after_attempt(3)
MaxAttempts == 3

\* lengths of the list of texts handed to generate_embeddings_batch
TextCounts == {0, 1, 50, 100, 101, 150, 200, 250, 300}

\* what client.embeddings.create raises when it does not answer
ProviderErrors ==
    {"RateLimitError", "APITimeoutError", "APIConnectionError", "OpenAIError", "Exception"}

\* the tables and requests of the knowledge base, which no call below touches
store == <<documents, index, uploads, tasks, scheduled, deletes, searchSeen>>

\* EmbeddingService.generate_embedding(text) or generate_embeddings_batch(texts)
\* at the moment it calls the client
NewEmbedCall(op, n) ==
    [pc |-> "client", op |-> op, n |-> n, i |-> 0, got |-> 0, attempt |-> 1,
     requests |-> 0, last |-> "none", result |-> "none"]

InitEmbed ==
    /\ InitStore
    /\ searchCall = NoSearchCall
    /\ chunkCall = NoChunkCall
    /\ ingestCall = NoIngestCall
    /\ scopeCall = NoScopeCall
    /\ embedCall \in {NewEmbedCall("generate_embeddings_batch", n) : n \in TextCounts}
                     \cup {NewEmbedCall("generate_embedding", 1)}

\* the except clauses of the client method: the exception that leaves it
ClientExcept(raised) ==
    CASE raised = "RateLimitError" -> "ExternalServiceError"
      [] raised = "APITimeoutError" -> "ExternalServiceError"
      [] raised = "APIConnectionError" -> "ExternalServiceError"
      [] raised = "OpenAIError" -> "ExternalServiceError"
      [] OTHER -> "ExternalServiceError"

\* variant: every exception that leaves the method is retried
RetryIfAny(exc) == TRUE

\* retry_if_exception_type((RateLimitError, APITimeoutError, APIConnectionError)),
\* applied by tenacity to the exception that leaves the method
RetryIf(exc) == exc \in {"RateLimitError", "APITimeoutError", "APIConnectionError"}

\* the texts of the request at offset i: one text, or texts[i : i + batch_size]
BatchLen(c) ==
    IF c.op = "generate_embedding" THEN 1 ELSE Min(EmbedBatchSize, c.n - c.i)

\* one await of client.embeddings.create inside the retried method: the
\* provider answers and the loop goes on or returns, or it raises, the
\* except clauses convert the exception, and tenacity runs the method
\* again from its first batch or re-raises
embeddings_create(outcome) ==
    /\ embedCall.pc = "client"
    /\ embedCall.n > 0
    /\ LET c == [embedCall EXCEPT !.requests = @ + 1, !.last = outcome]
           exc == ClientExcept(outcome)
       IN  embedCall' =
             IF outcome = "ok"
             THEN [c EXCEPT !.got = @ + BatchLen(embedCall),
                            !.i = @ + BatchLen(embedCall),
                            !.pc = IF embedCall.i + BatchLen(embedCall) >= embedCall.n
                                   THEN "client_returned" ELSE "client"]
             ELSE IF RetryIf(exc) /\ embedCall.attempt < MaxAttempts
             THEN [c EXCEPT !.attempt = @ + 1, !.i = 0, !.got = 0]
             ELSE [c EXCEPT !.pc = "client_raised", !.result = exc]
    /\ UNCHANGED <<store, searchCall, chunkCall, ingestCall, scopeCall>>

\* EmbeddingService returns what the client returned, or [] for no text
\* without calling the client
embedding_service_return ==
    /\ \/ embedCall.pc = "client_returned"
       \/ embedCall.pc = "client" /\ embedCall.n = 0
    /\ embedCall' = [embedCall EXCEPT !.pc = "returned", !.result = "embeddings"]
    /\ UNCHANGED <<store, searchCall, chunkCall, ingestCall, scopeCall>>

\* the except clauses of EmbeddingService: ExternalServiceError is raised
\* again, anything else is wrapped in one
embedding_service_except ==
    /\ embedCall.pc = "client_raised"
    /\ embedCall' = [embedCall EXCEPT !.pc = "raised",
                        !.result = IF @ = "ExternalServiceError" THEN @
                                   ELSE "ExternalServiceError"]
    /\ UNCHANGED <<store, searchCall, chunkCall, ingestCall, scopeCall>>

NextEmbed ==
    \/ \E outcome \in {"ok"} \cup ProviderErrors : embeddings_create(outcome)
    \/ embedding_service_return
    \/ embedding_service_except

SpecEmbed == InitEmbed /\ [][NextEmbed]_vars

\* --------------------------------------------- RetrievalService.search
\* points of the collection a search may meet
MaxPoints == 3

\* None, for an argument that is Optional
NoValue == -999
\* RetrievalService(default_limit=5)
DefaultLimit == 5
\* RetrievalService(score_threshold=0.5), in hundredths as every score below
DefaultThreshold == 50
\* the weights 0.7 and 0.3 of _rerank_results, in tenths
SemanticWeight == 7
LexicalWeight == 3

\* cosine similarities of a point to the query, in hundredths
Scores == {-30, -10, 0, 30, 80, 82}

\* queries as the words between their whitespace; << >> is a query that is
\* empty or all whitespace
Queries ==
    { <<"t0", "t1", "t2", "t3", "t4", "t5", "t6", "t7", "t8", "t9">>,
      <<"T0", "t0">>,
      << >> }

\* texts of the stored passages, as their words
Texts ==
    { <<"x">>,
      <<"t0", "t1", "t2", "t3", "t4", "t5", "t6">>,
      <<"T0", "t1", "t2", "t3", "t4", "t5", "t6", "t7", "t8", "t9", "x">> }

\* values of the arguments limit and score_threshold
Limits == {NoValue, 1, 2}
Thresholds == {NoValue, -100, 0, 30}

\* str.lower on a word
Lower(w) == IF w = "T0" THEN "t0" ELSE w

\* set(text.lower().split())
Terms(text) == {Lower(text[k]) : k \in 1..Len(text)}

\* x or default: None and 0 give the default
Or(x, default) == IF x = NoValue \/ x = 0 THEN default ELSE x

\* the points as Qdrant lists them: by descending score
ByScore(points) ==
    \A j, k \in 1..Len(points) : j < k => points[j].score >= points[k].score

\* a search about to run against a collection: the points carry the score
\* they have for the query; chunk_index tells the points of a document apart
NewSearchCall(query, points) ==
    [pc |-> "called", query |-> query, points |-> points,
     limit |-> NoValue, score_threshold |-> NoValue, rerank |-> TRUE,
     requested |-> 0, applied_threshold |-> NoValue,
     ranked |-> << >>, results |-> << >>, error |-> "none"]

InitSearch ==
    /\ InitStore
    /\ embedCall = NoEmbedCall
    /\ chunkCall = NoChunkCall
    /\ ingestCall = NoIngestCall
    /\ scopeCall = NoScopeCall
    /\ \E n \in 0..MaxPoints, query \in Queries :
         \E f \in [1..n -> Scores \X Texts] :
            LET points == [k \in 1..n |->
                              [chunk_index |-> k, score |-> f[k][1], text |-> f[k][2],
                               reranked_score |-> NoValue]]
            IN  /\ ByScore(points)
                /\ searchCall = NewSearchCall(query, points)

\* variant: as many candidates as results are requested
SearchLimitNoHeadroom(limit, rerank) == limit

\* search_limit = limit * 2 if rerank else limit
SearchLimit(limit, rerank) == IF rerank THEN limit * 2 ELSE limit

\* VectorOperations.search_vectors: the best `limit` points, of those at or
\* above the threshold when one is given
search_vectors(points, limit, score_threshold) ==
    LET Passes(r) == score_threshold = NoValue \/ r.score >= score_threshold
        found == SelectSeq(points, Passes)
    IN  SubSeq(found, 1, Min(limit, Len(found)))

\* len(query_terms), and the unit of reranked_score: scores are kept as
\* integers, a reranked_score in units of 1 / (1000 * Unit(query))
Unit(query) == IF Cardinality(Terms(query)) > 0 THEN Cardinality(Terms(query)) ELSE 1

\* len(query_terms & text_terms)
Overlap(query, text) == Cardinality(Terms(query) \cap Terms(text))

\* (0.7 * result.score) + (0.3 * lexical_score), with
\* lexical_score = overlap / total_terms if total_terms > 0 else 0
RerankedScore(query, r) ==
    SemanticWeight * r.score * Unit(query)
      + LexicalWeight * 100
          * (IF Cardinality(Terms(query)) > 0 THEN Overlap(query, r.text) ELSE 0)

\* key=lambda x: x.reranked_score or x.score, in the unit of reranked_score
SortKey(query, r) ==
    IF r.reranked_score # NoValue /\ r.reranked_score # 0
    THEN r.reranked_score
    ELSE r.score * 10 * Unit(query)

\* x put into a list sorted by descending key: after the elements of
\* greater key, and after those of equal key when after_ties
InsertByKey(sorted, x, query, after_ties) ==
    LET k == Cardinality({j \in 1..Len(sorted) :
                 \/ SortKey(query, sorted[j]) > SortKey(query, x)
                 \/ after_ties /\ SortKey(query, sorted[j]) = SortKey(query, x)})
    IN  SubSeq(sorted, 1, k) \o <<x>> \o SubSeq(sorted, k + 1, Len(sorted))

RECURSIVE SortedByKey(_, _, _)
SortedByKey(results, query, after_ties) ==
    IF results = << >> THEN << >>
    ELSE InsertByKey(SortedByKey(SubSeq(results, 1, Len(results) - 1), query, after_ties),
                     results[Len(results)], query, after_ties)

\* variant: ascending sort read backwards, which turns ties around
sort_reversed(results, query) == SortedByKey(results, query, FALSE)

\* results.sort(key=..., reverse=True): descending, ties in their order
sort_reverse(results, query) == SortedByKey(results, query, TRUE)

\* _rerank_results
rerank_results(query, results) ==
    IF results = << >> THEN results
    ELSE sort_reverse([k \in 1..Len(results) |->
                          [results[k] EXCEPT !.reranked_score = RerankedScore(query, results[k])]],
                      query)

\* RetrievalService.search: the query is validated, embedded, the
\* candidates are fetched, reranked when asked, and cut to limit; the
\* embedding or the vector search may raise, which search re-raises
retrieval_search(limit, score_threshold, rerank) ==
    /\ searchCall.pc = "called"
    /\ IF searchCall.query = << >>
       THEN searchCall' = [searchCall EXCEPT !.pc = "raised", !.error = "ValidationError"]
       ELSE \/ searchCall' = [searchCall EXCEPT !.pc = "raised",
                                                !.error = "ExternalServiceError"]
            \/ LET lim == Or(limit, DefaultLimit)
                   thr == Or(score_threshold, DefaultThreshold)
                   search_limit == SearchLimit(lim, rerank)
                   raw == search_vectors(searchCall.points, search_limit, thr)
                   ranked == IF rerank /\ raw # << >>
                             THEN rerank_results(searchCall.query, raw) ELSE raw
               IN  searchCall' = [searchCall EXCEPT
                       !.pc = "returned", !.limit = limit,
                       !.score_threshold = score_threshold, !.rerank = rerank,
                       !.requested = search_limit, !.applied_threshold = thr,
                       !.ranked = ranked,
                       !.results = SubSeq(ranked, 1, Min(lim, Len(ranked)))]
    /\ UNCHANGED <<store, embedCall, chunkCall, ingestCall, scopeCall>>

NextSearch ==
    \E limit \in Limits, score_threshold \in Thresholds, rerank \in BOOLEAN :
        retrieval_search(limit, score_threshold, rerank)

SpecSearch == InitSearch /\ [][NextSearch]_vars

\* ------------------------------------- KnowledgeBaseService.search
\* chunks a stored document may have in the collection
MaxChunksStored == 2

\* every call that is not the scoped search
notScope == <<store, embedCall, searchCall, chunkCall, ingestCall>>

\* the filter of a search without scope
NoFilter == [key |-> "none", value |-> "none"]

\* the payloads _store_chunks writes for a document of `n` chunks
Payloads(d, user_id, n) ==
    {[document_id |-> d, user_id |-> user_id, chunk_index |-> k] : k \in 0..(n - 1)}

\* a collection: every document has one owner and up to MaxChunksStored points
InitScope ==
    /\ InitStore
    /\ embedCall = NoEmbedCall
    /\ searchCall = NoSearchCall
    /\ chunkCall = NoChunkCall
    /\ ingestCall = NoIngestCall
    /\ \E owner \in [DocIds -> Users], n \in [DocIds -> 0..MaxChunksStored] :
         scopeCall = [pc |-> "called",
                      points |-> UNION {Payloads(d, owner[d], n[d]) : d \in DocIds},
                      user_id |-> NoUser, document_id |-> NoDoc,
                      filter |-> NoFilter, results |-> {}, error |-> "none"]

\* the filter_conditions of search_by_document, of search_by_user, or none:
\* KnowledgeBaseService.search looks at document_id first
filter_conditions(user_id, document_id) ==
    IF document_id # NoDoc THEN [key |-> "document_id", value |-> document_id]
    ELSE IF user_id # NoUser THEN [key |-> "user_id", value |-> user_id]
    ELSE NoFilter

\* variant: search_vectors leaves query_filter out of the request
PassesAnyFilter(p, filter) == TRUE

\* models.Filter(must=[{key, match: {value}}]) applied to the payload of a point
PassesFilter(p, filter) ==
    \/ filter.key = "none"
    \/ filter.key = "document_id" /\ p.document_id = filter.value
    \/ filter.key = "user_id" /\ p.user_id = filter.value

\* KnowledgeBaseService.search with a threshold and a limit that cut
\* nothing: the points that pass the filter are returned, or the embedding
\* or the vector search raises
kb_search(user_id, document_id) ==
    /\ scopeCall.pc = "called"
    /\ LET filter == filter_conditions(user_id, document_id)
       IN  \/ scopeCall' = [scopeCall EXCEPT
                  !.pc = "returned", !.user_id = user_id, !.document_id = document_id,
                  !.filter = filter,
                  !.results = {p \in scopeCall.points : PassesFilter(p, filter)}]
           \/ scopeCall' = [scopeCall EXCEPT
                  !.pc = "raised", !.user_id = user_id, !.document_id = document_id,
                  !.error = "ExternalServiceError"]
    /\ UNCHANGED notScope

NextScope ==
    \E user_id \in Users \cup {NoUser}, document_id \in DocIds \cup {NoDoc} :
        kb_search(user_id, document_id)

SpecScope == InitScope /\ [][NextScope]_vars

\* ---------------------------------------- DocumentProcessor chunking
\* lines of a text, and chunk sizes in tokens, the chunkers are run on
MaxLines == 3
MaxChunkSize == 3

\* every call that is not the chunking
notChunk == <<store, embedCall, searchCall, ingestCall, scopeCall>>

\* a text is the sequence of its characters; these are the lines a parsed
\* file is made of: two headings (one with blanks around it), a body line
\* of two words, an empty line and a line of blanks
Lines ==
    { <<"#", "a">>,
      <<" ", "#", "b", " ">>,
      <<"a", " ", " ", "b">>,
      << >>,
      <<" ">> }

\* heading of a section that has none (None)
NoHeading == << >>

\* str.isspace
Whitespace(c) == c \in {" ", "\n"}

\* str.strip
Strip(t) ==
    LET solid == {k \in 1..Len(t) : ~Whitespace(t[k])}
    IN  IF solid = {} THEN << >>
        ELSE SubSeq(t, CHOOSE k \in solid : \A j \in solid : k <= j,
                       CHOOSE k \in solid : \A j \in solid : k >= j)

\* '\n'.join(lines)
RECURSIVE JoinLines(_)
JoinLines(lines) ==
    IF lines = << >> THEN << >>
    ELSE IF Len(lines) = 1 THEN lines[1]
    ELSE JoinLines(SubSeq(lines, 1, Len(lines) - 1)) \o <<"\n">> \o lines[Len(lines)]

\* text.split('\n')
RECURSIVE SplitLines(_)
SplitLines(t) ==
    LET breaks == {k \in 1..Len(t) : t[k] = "\n"}
    IN  IF breaks = {} THEN <<t>>
        ELSE LET b == CHOOSE k \in breaks : \A j \in breaks : k <= j
             IN  <<SubSeq(t, 1, b - 1)>> \o SplitLines(SubSeq(t, b + 1, Len(t)))

\* a line without the blanks it starts with
RECURSIVE DropBlanks(_)
DropBlanks(t) ==
    IF t # << >> /\ Whitespace(t[1]) THEN DropBlanks(Tail(t)) ELSE t

\* re.sub(r'\s+', ' ', line)
RECURSIVE Collapse(_)
Collapse(t) ==
    IF t = << >> THEN << >>
    ELSE IF Whitespace(t[1]) THEN <<" ">> \o Collapse(DropBlanks(t))
    ELSE <<t[1]>> \o Collapse(Tail(t))

\* if cleaned_line
NotEmpty(line) == line # << >>

\* _clean_text; no line of Lines is a page number, and the lines it keeps
\* are not empty, so that no run of three line breaks is left to shorten
clean_text(text) ==
    LET lines == SplitLines(text)
        cleaned_lines == SelectSeq([k \in 1..Len(lines) |-> Strip(Collapse(lines[k]))],
                                   NotEmpty)
    IN  Strip(JoinLines(cleaned_lines))

\* encoding.encode: a token is a run of characters; a blank joins the
\* character after it, every other character is a token of its own
RECURSIVE Encode(_)
Encode(t) ==
    IF t = << >> THEN << >>
    ELSE IF Len(t) >= 2 /\ t[1] = " " /\ ~Whitespace(t[2])
         THEN << <<t[1], t[2]>> >> \o Encode(SubSeq(t, 3, Len(t)))
         ELSE << <<t[1]>> >> \o Encode(Tail(t))

\* encoding.decode: the characters of the tokens, in order
RECURSIVE Decode(_)
Decode(tokens) ==
    IF tokens = << >> THEN << >> ELSE Head(tokens) \o Decode(Tail(tokens))

\* variant: the window starts one full chunk after the last, without overlap
AdvanceNoOverlap(chunk_size, chunk_overlap) == chunk_size

\* start_idx += self.chunk_size - self.chunk_overlap
Advance(chunk_size, chunk_overlap) == chunk_size - chunk_overlap

\* variant: a chunk is numbered by the token it starts at
NextChunkIndexByToken(chunk_index, start_idx) == start_idx

\* chunk_index += 1
NextChunkIndex(chunk_index, start_idx) == chunk_index + 1

\* the while loop of _chunk_text from start_idx on
RECURSIVE Windows(_, _, _, _, _)
Windows(tokens, start_idx, chunk_index, chunk_size, chunk_overlap) ==
    IF start_idx >= Len(tokens) THEN << >>
    ELSE LET end_idx == start_idx + chunk_size
             chunk_tokens == SubSeq(tokens, start_idx + 1, Min(end_idx, Len(tokens)))
             next_start == start_idx + Advance(chunk_size, chunk_overlap)
         IN  << [chunk_index |-> chunk_index, text |-> Decode(chunk_tokens),
                 heading |-> NoHeading, chunking_strategy |-> "none",
                 start_token |-> start_idx, end_token |-> end_idx,
                 token_count |-> Len(chunk_tokens)] >>
             \o Windows(tokens, next_start, NextChunkIndex(chunk_index, next_start),
                        chunk_size, chunk_overlap)

\* _chunk_text
chunk_text(text, chunk_size, chunk_overlap) ==
    Windows(Encode(text), 0, 0, chunk_size, chunk_overlap)

\* line.strip().startswith('#')
IsHeading(line) == Strip(line) # << >> /\ Strip(line)[1] = "#"

\* the section under construction is closed: kept when its text is not blank
CloseSection(sections, current_section, current_heading) ==
    IF current_section # << >> /\ Strip(JoinLines(current_section)) # << >>
    THEN Append(sections, [heading |-> current_heading,
                           text |-> Strip(JoinLines(current_section))])
    ELSE sections

\* the for loop of _chunk_by_section from line k on, and the last section
RECURSIVE ScanLines(_, _, _, _, _)
ScanLines(lines, k, sections, current_section, current_heading) ==
    IF k > Len(lines) THEN CloseSection(sections, current_section, current_heading)
    ELSE IF IsHeading(lines[k])
    THEN ScanLines(lines, k + 1,
                   CloseSection(sections, current_section, current_heading),
                   <<lines[k]>>, Strip(lines[k]))
    ELSE ScanLines(lines, k + 1, sections, Append(current_section, lines[k]),
                   current_heading)

\* variant: the fallback is taken only when there is no section at all
NoSectionAtAll(sections) == sections = << >>

\* not sections or all(s['heading'] is None for s in sections)
NoSectionFound(sections) ==
    sections = << >> \/ \A k \in 1..Len(sections) : sections[k].heading = NoHeading

\* _chunk_by_section
chunk_by_section(text, chunk_size, chunk_overlap) ==
    LET sections == ScanLines(SplitLines(text), 1, << >>, << >>, NoHeading)
    IN  IF NoSectionFound(sections) THEN chunk_text(text, chunk_size, chunk_overlap)
        ELSE [k \in 1..Len(sections) |->
                 [chunk_index |-> k - 1, text |-> sections[k].text,
                  heading |-> sections[k].heading, chunking_strategy |-> "section",
                  start_token |-> NoValue, end_token |-> NoValue,
                  token_count |-> Len(Encode(sections[k].text))]]

\* a DocumentProcessor(chunk_size, chunk_overlap, chunking_strategy) that
\* has parsed a file
InitChunk ==
    /\ InitStore
    /\ embedCall = NoEmbedCall
    /\ searchCall = NoSearchCall
    /\ ingestCall = NoIngestCall
    /\ scopeCall = NoScopeCall
    /\ \E n \in 1..MaxLines, chunk_size \in 1..MaxChunkSize,
          chunking_strategy \in {"section", "token"} :
         \E lines \in [1..n -> Lines], chunk_overlap \in 0..(chunk_size - 1) :
            chunkCall = [pc |-> "called", parsed |-> JoinLines(lines), text |-> << >>,
                         chunking_strategy |-> chunking_strategy,
                         chunk_size |-> chunk_size, chunk_overlap |-> chunk_overlap,
                         chunks |-> << >>]

\* process_file after the parsing: the text is cleaned, then chunked
chunk_by_strategy ==
    /\ chunkCall.pc = "called"
    /\ LET text == clean_text(chunkCall.parsed)
       IN  chunkCall' = [chunkCall EXCEPT
             !.pc = "returned",
             !.text = text,
             !.chunks = IF chunkCall.chunking_strategy = "section"
                        THEN chunk_by_section(text, chunkCall.chunk_size,
                                              chunkCall.chunk_overlap)
                        ELSE chunk_text(text, chunkCall.chunk_size,
                                        chunkCall.chunk_overlap)]
    /\ UNCHANGED notChunk

NextChunk == chunk_by_strategy

SpecChunk == InitChunk /\ [][NextChunk]_vars

\* ------------------------------- chunking configuration of an upload
\* windows after which a token chunking that has not returned is left alone
MaxWindows == 260

\* every call that is not the upload with its chunking configuration
notIngest == <<store, embedCall, searchCall, chunkCall, scopeCall>>

\* Form(...) values of upload_document: strategies, sizes and overlaps on
\* both sides of what the endpoint accepts
FormStrategies == {"section", "token", "page"}
FormChunkSizes == {50, 100, 500}
FormChunkOverlaps == {-1, 0, 50, 99, 100}

\* settings.KB_CHUNK_SIZE
KB_CHUNK_SIZE == 500
\* settings.KB_CHUNKING_STRATEGY
KB_CHUNKING_STRATEGY == "section"
\* settings.KB_CHUNK_OVERLAP: Field(default=50, ge=0, le=500)
KBChunkOverlaps == {0, 50, 100, 500}

\* tokens of the cleaned text, and heading lines in it
TokenCounts == {0, 150, 250}
HeadingCounts == {0, 2}

\* no chunking_config in the metadata, no DocumentProcessor built
NoConfig == [strategy |-> "none", chunk_size |-> NoValue, chunk_overlap |-> NoValue]
NoProcessor == [chunking_strategy |-> "none", chunk_size |-> NoValue,
                chunk_overlap |-> NoValue]

\* POST /documents is called on a service with its settings loaded
InitIngest ==
    /\ InitStore
    /\ embedCall = NoEmbedCall
    /\ searchCall = NoSearchCall
    /\ chunkCall = NoChunkCall
    /\ scopeCall = NoScopeCall
    /\ \E chunking_strategy \in FormStrategies, chunk_size \in FormChunkSizes,
          chunk_overlap \in FormChunkOverlaps, default_overlap \in KBChunkOverlaps,
          tokens \in TokenCounts, headings \in HeadingCounts :
         ingestCall = [pc |-> "called",
                       chunking_strategy |-> chunking_strategy,
                       chunk_size |-> chunk_size,
                       chunk_overlap |-> chunk_overlap,
                       KB_CHUNK_OVERLAP |-> default_overlap,
                       tokens |-> tokens, headings |-> headings,
                       chunking_config |-> NoConfig,
                       processor |-> NoProcessor,
                       start_idx |-> 0, chunk_index |-> 0,
                       error |-> "none"]

\* the checks of upload_document on the chunking parameters
ValidChunking(chunking_strategy, chunk_size, chunk_overlap) ==
    /\ chunking_strategy \in {"section", "token"}
    /\ ~(chunk_size < 100 \/ chunk_size > 2000)
    /\ ~(chunk_overlap < 0 \/ chunk_overlap >= chunk_size)

\* upload_document: the parameters are validated, recorded in the metadata
\* of the document and handed to the background task
upload_document_config ==
    /\ ingestCall.pc = "called"
    /\ IF ValidChunking(ingestCall.chunking_strategy, ingestCall.chunk_size,
                        ingestCall.chunk_overlap)
       THEN ingestCall' = [ingestCall EXCEPT
              !.pc = "scheduled",
              !.chunking_config = [strategy |-> ingestCall.chunking_strategy,
                                   chunk_size |-> ingestCall.chunk_size,
                                   chunk_overlap |-> ingestCall.chunk_overlap]]
       ELSE ingestCall' = [ingestCall EXCEPT !.pc = "raised",
                                             !.error = "ValidationError"]
    /\ UNCHANGED notIngest

\* the DocumentProcessor that process_document_background builds
\* (the endpoint passes all three parameters: none of them is None)
CustomProcessor(chunking_strategy, chunk_size, chunk_overlap, default_overlap) ==
    [chunking_strategy |-> IF chunking_strategy = "" THEN KB_CHUNKING_STRATEGY
                           ELSE chunking_strategy,
     chunk_size |-> Or(chunk_size, KB_CHUNK_SIZE),
     chunk_overlap |-> Or(chunk_overlap, default_overlap)]

\* process_document_background up to the chunking: the processor is built
\* and process_file chunks by section, or enters the loop of _chunk_text
build_processor ==
    /\ ingestCall.pc = "scheduled"
    /\ LET processor == CustomProcessor(ingestCall.chunking_strategy,
                                        ingestCall.chunk_size,
                                        ingestCall.chunk_overlap,
                                        ingestCall.KB_CHUNK_OVERLAP)
       IN  IF processor.chunking_strategy = "section" /\ ingestCall.headings > 0
           THEN ingestCall' = [ingestCall EXCEPT !.pc = "chunked",
                                                 !.processor = processor,
                                                 !.chunk_index = ingestCall.headings]
           ELSE ingestCall' = [ingestCall EXCEPT !.pc = "chunk_text",
                                                 !.processor = processor,
                                                 !.start_idx = 0,
                                                 !.chunk_index = 0]
    /\ UNCHANGED notIngest

\* one turn of the while loop of _chunk_text
chunk_text_step ==
    /\ ingestCall.pc = "chunk_text"
    /\ ingestCall.start_idx < ingestCall.tokens
    /\ ingestCall.chunk_index < MaxWindows
    /\ ingestCall' = [ingestCall EXCEPT
          !.start_idx = @ + ingestCall.processor.chunk_size
                          - ingestCall.processor.chunk_overlap,
          !.chunk_index = @ + 1]
    /\ UNCHANGED notIngest

\* the while loop of _chunk_text is left
chunk_text_return ==
    /\ ingestCall.pc = "chunk_text"
    /\ ~(ingestCall.start_idx < ingestCall.tokens)
    /\ ingestCall' = [ingestCall EXCEPT !.pc = "chunked"]
    /\ UNCHANGED notIngest

NextIngest ==
    \/ upload_document_config
    \/ build_processor
    \/ chunk_text_step
    \/ chunk_text_return

SpecIngest == InitIngest /\ [][NextIngest]_vars

\* ------------------------------------------------------------ properties
\* documents whose points a delete_document call has removed
Purged ==
    {d \in DocIds : \E q \in DeleteIds :
        /\ deletes[q].doc = d
        /\ \/ deletes[q].pc = "record"
           \/ deletes[q].result \in {"deleted", "record_error"}}

\* C1: in every step, a document whose status changes was processing
\* before the step and is done or failed after it.
C1_StatusTransitions ==
    [][\A d \in Rows \cap DOMAIN documents' :
          documents'[d].status # documents[d].status =>
              /\ documents[d].status = "processing"
              /\ documents'[d].status \in {"done", "failed"}]_vars

\* a done document was uploaded again and its run has ended
C1_Witness ==
    \E d \in Rows, r \in UploadIds :
        /\ documents[d].status = "done"
        /\ tasks[d].pc = "finished"
        /\ uploads[r].resp.kind = "duplicate"
        /\ uploads[r].resp.id = d
        /\ uploads[r].resp.status = "done"

\* C2: a document is done only when its run has upserted every one of
\* its n passages, and it then carries chunk_count = n.
C2_DoneAfterAllStored ==
    \A d \in Rows :
        documents[d].status = "done" =>
            /\ tasks[d].i = tasks[d].n
            /\ documents[d].chunk_count = tasks[d].n

\* a document is done after two sub-batches
C2_Witness ==
    \E d \in Rows :
        /\ documents[d].status = "done"
        /\ documents[d].chunk_count = 150
        /\ tasks[d].i = 150

\* C3 as stated: chunk_count is 0 while processing or failed, and is the
\* number of the document's points in the collection when done.
C3_Original ==
    \A d \in Rows :
        /\ documents[d].status \in {"processing", "failed"} => documents[d].chunk_count = 0
        /\ documents[d].status = "done" => documents[d].chunk_count = index[d]

\* C3 as amended: the same, for the done documents whose points no
\* delete_document call has removed.
C3_ChunkCount ==
    \A d \in Rows :
        /\ documents[d].status \in {"processing", "failed"} => documents[d].chunk_count = 0
        /\ (documents[d].status = "done" /\ d \notin Purged) =>
               documents[d].chunk_count = index[d]

\* a done document with its 150 points next to a failed one with points left
C3_Witness ==
    \E d, e \in Rows :
        /\ documents[d].status = "done"
        /\ d \notin Purged
        /\ index[d] = 150
        /\ documents[e].status = "failed"
        /\ index[e] > 0

\* C4 as stated: a run that has ended has left its document done or failed.
C4_Original ==
    \A d \in Rows :
        tasks[d].pc = "finished" => documents[d].status # "processing"

\* C5: no run raises to its caller, and a run that caught an exception has
\* tried to write the failed status before it ended.
C5_NeverRaises ==
    \A d \in DocIds :
        /\ ~tasks[d].raised
        /\ (tasks[d].pc = "finished" /\ tasks[d].caught) => tasks[d].fail_tried

\* a run ended after the write of the failed status itself failed
C5_Witness ==
    \E d \in Rows :
        /\ tasks[d].pc = "finished"
        /\ tasks[d].caught
        /\ tasks[d].fail_tried
        /\ documents[d].status = "processing"

\* C6 as stated: every passage a search returns belongs to a document that
\* is done at that moment.
C6_Original ==
    \A p \in searchSeen : p.status = "done"

\* C7: an upload that passes validation while a document of the same owner
\* and hash exists ends in that step with the existing id and
\* duplicate = true, and changes neither the table nor the tasks.
C7_DuplicateUpload ==
    [][\A r \in UploadIds :
          (uploads[r].pc = "new" /\ uploads'[r].pc # "new"
             /\ uploads'[r].resp.kind # "ValidationError") =>
          \A d \in Rows :
              (documents[d].user_id = uploads'[r].user_id
                 /\ documents[d].file_hash = uploads'[r].file_hash) =>
                  /\ uploads'[r].pc = "done"
                  /\ uploads'[r].resp.id = d
                  /\ uploads'[r].resp.duplicate
                  /\ documents' = documents
                  /\ tasks' = tasks
                  /\ scheduled' = scheduled]_vars

\* a duplicate was answered while the first document was still processing
C7_Witness ==
    \E r \in UploadIds :
        /\ uploads[r].resp.kind = "duplicate"
        /\ uploads[r].resp.duplicate
        /\ uploads[r].resp.status = "processing"
        /\ Cardinality(Rows) = 1

\* C8 as stated: when one owner's upload has created a document, a finished
\* upload of the same bytes by another owner has created a second one.
C8_Original ==
    \A r1, r2 \in UploadIds :
        (/\ uploads[r1].resp.kind = "created"
         /\ uploads[r2].pc = "done"
         /\ uploads[r2].resp.kind # "ValidationError"
         /\ uploads[r2].user_id # uploads[r1].user_id
         /\ uploads[r2].file_hash = uploads[r1].file_hash) =>
            /\ uploads[r2].resp.kind = "created"
            /\ uploads[r2].resp.id # uploads[r1].resp.id

\* C9: no two rows have the same owner and the same hash.
C9_OnePerOwnerHash ==
    \A d, e \in Rows :
        (documents[d].user_id = documents[e].user_id
           /\ documents[d].file_hash = documents[e].file_hash) => d = e

\* two uploads of the same bytes by one owner both passed the duplicate
\* check; one created the row and the other failed on it
C9_Witness ==
    \E r1, r2 \in UploadIds :
        /\ r1 # r2
        /\ uploads[r1].user_id = uploads[r2].user_id
        /\ uploads[r1].file_hash = uploads[r2].file_hash
        /\ uploads[r1].resp.kind = "created"
        /\ uploads[r2].resp.kind = "error"

\* C10 as stated: a duplicate upload starts a run exactly when the existing
\* document is processing or failed.
C10_Original ==
    \A r \in UploadIds :
        uploads[r].resp.kind = "duplicate" =>
            (uploads[r].resp.task_added <=>
                uploads[r].resp.status \in {"processing", "failed"})

\* C10 as amended: a duplicate upload starts no run whatever the status of
\* the existing document; each document id has exactly the one run
\* scheduled when it was created.
C10_NoRetryByReupload ==
    /\ \A r \in UploadIds :
          uploads[r].resp.kind = "duplicate" => ~uploads[r].resp.task_added
    /\ \A d \in DocIds :
          scheduled[d] =
            IF \E r \in UploadIds : uploads[r].resp.kind = "created" /\ uploads[r].resp.id = d
            THEN 1 ELSE 0

\* a failed document was uploaded again and still has its single, ended run
C10_Witness ==
    \E r \in UploadIds :
        /\ uploads[r].resp.kind = "duplicate"
        /\ uploads[r].resp.status = "failed"
        /\ scheduled[uploads[r].resp.id] = 1
        /\ tasks[uploads[r].resp.id].pc = "finished"

\* C11: an upload whose file has an unsupported extension, is larger than
\* MAX_FILE_SIZE or is empty ends in that one step with a ValidationError,
\* whatever documents exist: no duplicate is looked up, no row is created,
\* the collection is untouched and no processing is scheduled.
C11_ValidationFirst ==
    [][\A r \in UploadIds :
         ( /\ uploads[r].pc = "new"
           /\ uploads'[r].pc # "new"
           /\ \/ uploads'[r].file.ext \notin SUPPORTED_FILE_TYPES
              \/ uploads'[r].file.size > MAX_FILE_SIZE
              \/ uploads'[r].file.size = 0 )
         => /\ uploads'[r].pc = "done"
            /\ uploads'[r].resp.kind = "ValidationError"
            /\ uploads'[r].resp.id = NoDoc
            /\ ~uploads'[r].resp.duplicate
            /\ ~uploads'[r].resp.task_added
            /\ UNCHANGED <<documents, index, tasks, scheduled>>]_vars

\* an upload rejected for its extension although its bytes are those of a
\* document its user already has
C11_Witness ==
    \E r \in UploadIds, d \in Rows :
        /\ uploads[r].resp.kind = "ValidationError"
        /\ uploads[r].file.ext \notin SUPPORTED_FILE_TYPES
        /\ documents[d].file_hash = compute_file_hash(uploads[r].file.content)
        /\ documents[d].user_id = uploads[r].user_id

\* C12: the step that answers an upload with a new document creates its
\* row with status processing and chunk_count 0, answers before any step of
\* the processing has run for it (the task is scheduled, the collection holds
\* no point of it), and schedules processing for it once; no document is
\* ever scheduled more than once.
C12_CreateThenSchedule ==
    [][ /\ \A r \in UploadIds :
            (uploads[r].resp.kind # "created" /\ uploads'[r].resp.kind = "created")
            => LET d == uploads'[r].resp.id
               IN  /\ d \notin Rows
                   /\ d \in DOMAIN documents'
                   /\ documents'[d].status = "processing"
                   /\ documents'[d].chunk_count = 0
                   /\ uploads'[r].resp.status = "processing"
                   /\ ~uploads'[r].resp.duplicate
                   /\ tasks[d].pc = "none"
                   /\ tasks'[d].pc = "scheduled"
                   /\ index'[d] = 0
                   /\ scheduled[d] = 0
                   /\ scheduled'[d] = 1
        /\ \A d \in DocIds : scheduled'[d] <= 1 ]_vars

\* a created document whose one scheduled run has gone through all its steps
C12_Witness ==
    \E r \in UploadIds :
        /\ uploads[r].resp.kind = "created"
        /\ scheduled[uploads[r].resp.id] = 1
        /\ tasks[uploads[r].resp.id].pc = "finished"
        /\ index[uploads[r].resp.id] > 0

\* C13: delete_document removes the points before the row: a row disappears
\* only in the step of a delete that has already cleared the points of that
\* document without error; the step that clears them leaves the table
\* alone; a delete whose vector deletion fails ends there with the error
\* and the table unchanged, and a delete that has ended does nothing more.
C13_VectorsBeforeRecord ==
    [][ /\ \A d \in Rows :
            d \notin DOMAIN documents'
            => \E q \in DeleteIds : /\ deletes[q].pc = "record"
                                    /\ deletes[q].doc = d
                                    /\ deletes[q].result = "none"
                                    /\ deletes'[q].result = "deleted"
        /\ \A q \in DeleteIds :
            (deletes[q].pc = "vectors" /\ deletes'[q].pc = "record")
            => index'[deletes[q].doc] = 0 /\ documents' = documents
        /\ \A q \in DeleteIds :
            (deletes[q].pc = "vectors" /\ deletes'[q].result = "vector_error")
            => deletes'[q].pc = "done" /\ documents' = documents /\ index' = index
        /\ \A q \in DeleteIds :
            deletes[q].pc = "done" => deletes'[q] = deletes[q] ]_vars

\* a delete that failed on the vectors, with the row and its points in place
C13_Witness ==
    \E q \in DeleteIds :
        /\ deletes[q].result = "vector_error"
        /\ deletes[q].doc \in Rows
        /\ index[deletes[q].doc] > 0

\* C14: when generate_embeddings_batch raises for a document, no point of
\* that document has been written, and once its run has finished the
\* document, if it still exists, has status failed and chunk_count 0.
C14_Original ==
    \A d \in DocIds :
        tasks[d].cause = "embed"
        => /\ index[d] = 0
           /\ (tasks[d].pc = "finished" /\ d \in Rows)
              => /\ documents[d].status = "failed"
                 /\ documents[d].chunk_count = 0

\* C15: once a sub-batch of upsert_vectors_batch has failed for a document,
\* the failure is in the hands of process_document_background, no further
\* point of that document is written, and once its run has finished the
\* document, if it still exists, has status failed.
C15_Original ==
    [][\A d \in DocIds :
         /\ tasks[d].cause = "upsert"
            => tasks[d].caught /\ index'[d] <= index[d]
         /\ (tasks'[d].cause = "upsert" /\ tasks'[d].pc = "finished"
               /\ d \in DOMAIN documents')
            => documents'[d].status = "failed" ]_vars

\* C16: a call of the embedding client gives up with an error after a
\* rate-limit, timeout or connection error of the provider only when it has
\* made its three attempts.
C16_Original ==
    ( /\ embedCall.pc \in {"client_raised", "raised"}
      /\ embedCall.last \in {"RateLimitError", "APITimeoutError", "APIConnectionError"} )
    => embedCall.attempt = MaxAttempts

\* C17: when the provider raises an error that is not a rate-limit, timeout
\* or connection error, the method is not run again: the call ends in that
\* step with ExternalServiceError, the provider is not called any more, and
\* ExternalServiceError is what EmbeddingService raises.
C17_NoRetryOfPermanent ==
    [][ /\ ( /\ embedCall.pc = "client"
              /\ embedCall'.requests = embedCall.requests + 1
              /\ embedCall'.last \in {"OpenAIError", "Exception"} )
           => /\ embedCall'.pc = "client_raised"
              /\ embedCall'.result = "ExternalServiceError"
              /\ embedCall'.attempt = embedCall.attempt
        /\ ( /\ embedCall.pc \in {"client_raised", "raised"}
              /\ embedCall.last \in {"OpenAIError", "Exception"} )
           => /\ embedCall'.pc \in {"client_raised", "raised"}
              /\ embedCall'.requests = embedCall.requests
              /\ embedCall'.result = "ExternalServiceError" ]_vars

\* a call of 250 texts that EmbeddingService has raised after the provider
\* refused its second batch for good
C17_Witness ==
    /\ embedCall.pc = "raised"
    /\ embedCall.last = "OpenAIError"
    /\ embedCall.n = 250
    /\ embedCall.i = 100
    /\ embedCall.requests = 2
    /\ embedCall.result = "ExternalServiceError"

\* C18: a search that returns has asked the vector index for twice its
\* limit when it reranks and for its limit when it does not (the limit
\* given, or the default limit when none is given), and returns at most
\* that limit of results.
C18_CandidatesAndLimit ==
    searchCall.pc = "returned"
    => LET lim == IF searchCall.limit = NoValue THEN DefaultLimit ELSE searchCall.limit
       IN  /\ searchCall.requested = IF searchCall.rerank THEN 2 * lim ELSE lim
           /\ Len(searchCall.results) <= lim

\* a reranking search with limit 1 that got two candidates and returned one
C18_Witness ==
    /\ searchCall.pc = "returned"
    /\ searchCall.rerank
    /\ searchCall.limit = 1
    /\ searchCall.requested = 2
    /\ Len(searchCall.ranked) = 2
    /\ Len(searchCall.results) = 1

\* C19: the results of a reranking search carry, as reranked_score,
\* 0.7 * score + 0.3 * |query terms in the text| / |query terms|, and are
\* listed in non-increasing order of it, whatever the scores are.
C19_Original ==
    (searchCall.pc = "returned" /\ searchCall.rerank)
    => LET q == Terms(searchCall.query)
           Combined(r) == 7 * r.score * Cardinality(q)
                            + 300 * Cardinality(q \cap Terms(r.text))
           res == searchCall.results
       IN  /\ \A k \in 1..Len(res) : res[k].reranked_score = Combined(res[k])
           /\ \A j, k \in 1..Len(res) : j < k => Combined(res[j]) >= Combined(res[k])

\* C20: candidates of equal combined score leave the rerank in the order in
\* which the vector index listed them, and reranking the reranked list
\* again leaves it as it is.
C20_StableRerank ==
    (searchCall.pc = "returned" /\ searchCall.rerank)
    => LET q == Terms(searchCall.query)
           Combined(r) == 7 * r.score * Cardinality(q)
                            + 300 * Cardinality(q \cap Terms(r.text))
           res == searchCall.ranked
       IN  /\ \A j, k \in 1..Len(res) :
                 (j < k /\ Combined(res[j]) = Combined(res[k]))
                 => res[j].chunk_index < res[k].chunk_index
           /\ rerank_results(searchCall.query, res) = res

\* a reranked list with two candidates of equal combined score that differ
\* in semantic score and in text
C20_Witness ==
    /\ searchCall.pc = "returned"
    /\ searchCall.rerank
    /\ \E j, k \in 1..Len(searchCall.ranked) :
         /\ j < k
         /\ searchCall.ranked[j].reranked_score = searchCall.ranked[k].reranked_score
         /\ searchCall.ranked[j].score # searchCall.ranked[k].score

\* C21: a search of one document is sent with a filter on document_id alone
\* and returns points of that document only; a search of one owner (no
\* document given) is sent with a filter on user_id alone and returns points
\* of that owner only; a search without scope is sent without filter and
\* returns every point.
C21_ScopeFilter ==
    scopeCall.pc = "returned"
    => /\ scopeCall.document_id # NoDoc
          => /\ scopeCall.filter = [key |-> "document_id", value |-> scopeCall.document_id]
             /\ \A p \in scopeCall.results : p.document_id = scopeCall.document_id
       /\ (scopeCall.document_id = NoDoc /\ scopeCall.user_id # NoUser)
          => /\ scopeCall.filter = [key |-> "user_id", value |-> scopeCall.user_id]
             /\ \A p \in scopeCall.results : p.user_id = scopeCall.user_id
       /\ (scopeCall.document_id = NoDoc /\ scopeCall.user_id = NoUser)
          => /\ scopeCall.filter = NoFilter
             /\ scopeCall.results = scopeCall.points

\* a search of one owner that left out the points of the other owner
C21_Witness ==
    /\ scopeCall.pc = "returned"
    /\ scopeCall.document_id = NoDoc
    /\ scopeCall.user_id # NoUser
    /\ scopeCall.results # {}
    /\ \E p \in scopeCall.points : p.user_id # scopeCall.user_id

\* C22: the chunks a chunker returns are numbered 0, 1, ..., n-1 in the
\* order of the list, for the token strategy, for the section strategy and
\* for the section strategy falling back on token windows.
C22_ContiguousIndices ==
    chunkCall.pc = "returned"
    => \A k \in 1..Len(chunkCall.chunks) : chunkCall.chunks[k].chunk_index = k - 1

\* a text without heading chunked by section into three token windows
C22_Witness ==
    /\ chunkCall.pc = "returned"
    /\ chunkCall.chunking_strategy = "section"
    /\ Len(chunkCall.chunks) = 3
    /\ chunkCall.chunks[3].chunking_strategy = "none"
    /\ chunkCall.chunks[3].chunk_index = 2

\* the tokens of the chunks from the k-th on, each but the first of the
\* list without its first chunk_overlap tokens
RECURSIVE C23_Rejoined(_, _, _)
C23_Rejoined(chunks, k, chunk_overlap) ==
    IF k > Len(chunks) THEN << >>
    ELSE LET tokens == Encode(chunks[k].text)
             dropped == IF k = 1 THEN 0 ELSE chunk_overlap
         IN  SubSeq(tokens, dropped + 1, Len(tokens))
             \o C23_Rejoined(chunks, k + 1, chunk_overlap)

\* C23: with 0 <= overlap < chunk size, the i-th token window holds the
\* tokens from position i * (chunk size - overlap) up to chunk size tokens
\* further, clipped at the end of the text; there is a window for every such
\* position inside the text and no other; and the windows, each but the
\* first without its first overlap tokens, concatenate to the tokens of the
\* text.
C23_WindowsCoverTokens ==
    chunkCall.pc = "returned" /\ chunkCall.chunking_strategy = "token"
    => LET tokens == Encode(chunkCall.text)
           chunks == chunkCall.chunks
           step == chunkCall.chunk_size - chunkCall.chunk_overlap
       IN  /\ \A k \in 1..Len(chunks) :
                 LET from == (k - 1) * step
                     window == SubSeq(tokens, from + 1,
                                      Min(from + chunkCall.chunk_size, Len(tokens)))
                 IN  /\ from < Len(tokens)
                     /\ chunks[k].start_token = from
                     /\ chunks[k].token_count = Len(window)
                     /\ chunks[k].text = Decode(window)
                     /\ Encode(chunks[k].text) = window
           /\ Len(chunks) * step >= Len(tokens)
           /\ C23_Rejoined(chunks, 1, chunkCall.chunk_overlap) = tokens

\* three overlapping windows, the last one clipped at the end of the text
C23_Witness ==
    /\ chunkCall.pc = "returned"
    /\ chunkCall.chunking_strategy = "token"
    /\ chunkCall.chunk_overlap > 0
    /\ Len(chunkCall.chunks) = 3
    /\ chunkCall.chunks[2].token_count = chunkCall.chunk_size
    /\ chunkCall.chunks[3].token_count < chunkCall.chunk_size

\* t begins with h
C24_BeginsWith(t, h) == Len(t) >= Len(h) /\ SubSeq(t, 1, Len(h)) = h

\* C24: chunking by section a text with N >= 1 heading lines and nothing
\* before the first of them gives N chunks, the i-th tagged with the i-th
\* heading and beginning with it; text before the first heading gives one
\* more chunk, first and without heading; a text without any heading line
\* gives the chunks of the token strategy.
C24_SectionPerHeading ==
    chunkCall.pc = "returned" /\ chunkCall.chunking_strategy = "section"
    => LET lines == SplitLines(chunkCall.text)
           headings == SelectSeq(lines, IsHeading)
           N == Len(headings)
           chunks == chunkCall.chunks
           preamble == \E k \in 1..Len(lines) :
                          /\ Strip(lines[k]) # << >>
                          /\ \A j \in 1..k : ~IsHeading(lines[j])
           first == IF preamble THEN 1 ELSE 0
       IN  IF N = 0
           THEN chunks = chunk_text(chunkCall.text, chunkCall.chunk_size,
                                    chunkCall.chunk_overlap)
           ELSE /\ Len(chunks) = N + first
                /\ preamble => chunks[1].heading = NoHeading
                /\ \A i \in 1..N :
                      /\ chunks[i + first].heading = Strip(headings[i])
                      /\ C24_BeginsWith(chunks[i + first].text, Strip(headings[i]))

\* a text of a body line and two headings gives three sections, the first
\* of them without heading
C24_Witness ==
    /\ chunkCall.pc = "returned"
    /\ chunkCall.chunking_strategy = "section"
    /\ Len(chunkCall.chunks) = 3
    /\ chunkCall.chunks[1].heading = NoHeading
    /\ chunkCall.chunks[1].chunking_strategy = "section"
    /\ chunkCall.chunks[2].heading = <<"#", "a">>
    /\ chunkCall.chunks[3].heading = <<"#", "b">>

\* C25: the strategy, the chunk size and the overlap of the processor that
\* chunks an accepted upload are the ones recorded in the chunking_config of
\* the document's metadata, an overlap of 0 included.
C25_Original ==
    ingestCall.pc \in {"chunk_text", "chunked"}
    => /\ ingestCall.processor.chunking_strategy = ingestCall.chunking_config.strategy
       /\ ingestCall.processor.chunk_size = ingestCall.chunking_config.chunk_size
       /\ ingestCall.processor.chunk_overlap = ingestCall.chunking_config.chunk_overlap

\* C29: in the token chunking of an accepted upload the overlap of the
\* processor is smaller than its chunk size, and every turn of the loop
\* moves the start of the window forward.
C29_Original ==
    [][/\ ingestCall.pc = "chunk_text"
       /\ ingestCall'.pc = "chunk_text"
       /\ ingestCall'.chunk_index = ingestCall.chunk_index + 1
       => /\ ingestCall.processor.chunk_overlap < ingestCall.processor.chunk_size
          /\ ingestCall'.start_idx > ingestCall.start_idx]_vars

\* C26: every point of the index belongs to a document that has a row in
\* the table, whatever the interleaving of delete_document with the
\* processing of the document it deletes.
C26_Original ==
    \A d \in DocIds : index[d] > 0 => d \in Rows

\* C28: the index holds no point of a document whose status is failed.
C28_Original ==
    \A d \in Rows : documents[d].status = "failed" => index[d] = 0

\* C27: a search called with a user_id returns only points of documents of
\* that user, also when a document_id is passed with it.
C27_Original ==
    scopeCall.pc = "returned" /\ scopeCall.user_id # NoUser
    => \A p \in scopeCall.results : p.user_id = scopeCall.user_id

\* C30: the vector index is queried with the limit and the score threshold
\* the caller passed, for every value the request schema permits (limit of
\* 1 and more, threshold from 0.0 to 1.0, 0.0 included); the defaults of the
\* instance are applied only when the caller passes none.
C30_Original ==
    searchCall.pc = "returned"
    => /\ searchCall.limit >= 1
          => searchCall.requested = SearchLimit(searchCall.limit, searchCall.rerank)
       /\ searchCall.limit = NoValue
          => searchCall.requested = SearchLimit(DefaultLimit, searchCall.rerank)
       /\ searchCall.score_threshold \in 0..100
          => searchCall.applied_threshold = searchCall.score_threshold
       /\ searchCall.score_threshold = NoValue
          => searchCall.applied_threshold = DefaultThreshold
====
